---- MODULE Spec2Model ----
(***************************************************************************)
(* Resource handlers of the SSM activation, the GuardDuty threat intel set *)
(* and the EMR studio: the local resource data (id, configured and stored  *)
(* fields), the remote service each handler calls, and every handler as a  *)
(* sequence of steps, one step per remote call.                            *)
(***************************************************************************)
EXTENDS Integers, Sequences, FiniteSets, TLC

VARIABLES
    kind,      \* which resource this run manages
    cfg,       \* the configured (planned) field values: what d.Get returns
    dtc,       \* provider default tags (DefaultTagsConfig)
    itc,       \* provider ignored tag keys (IgnoreTagsConfig)
    id,        \* d.Id(): a string, as a sequence of characters
    st,        \* the field values held in local state (written by d.Set)
    isNew,     \* d.IsNewResource()
    pc,        \* position inside the running handler, "idle" between handlers
    op,        \* the handler that runs or ran last
    result,    \* how the last handler ended: "none", "ok", "error", "panic"
    diag,      \* the error the last handler returned
    input,     \* the request the create handler built
    resp,      \* the identifier in the create call's response
    remote,    \* the remote service's object
    ncreated,  \* remote objects made by successful create calls
    attempts,  \* create calls finished inside the retry window
    obs,       \* statuses observed by the running status poll
    pollRes,   \* result of the last status poll
    calls,     \* the remote calls of the running (or last) handler, in order
    nops,      \* handlers started so far
    nedits,    \* edits of the configuration so far
    nfault,    \* injected remote failures and out-of-band losses so far
    prevDeleted, \* the handler before this one was a delete that returned without error
    inflight,  \* a create request the handler has stopped waiting for is still
               \* with the service
    made,      \* remote objects made for create requests of the running (or
               \* last) handler
    windowAt   \* the place in calls of the create call during which the retry
               \* window elapsed, 0 while it has not

vars == <<kind, cfg, dtc, itc, id, st, isNew, pc, op, result, diag, input,
          resp, remote, ncreated, attempts, obs, pollRes, calls, nops, nedits,
          nfault, prevDeleted, inflight, made, windowAt>>

-----------------------------------------------------------------------------
(* Bounds of the model *)

MaxOps == 2
MaxEdits == 1
MaxFaults == 1
MaxAttempts == 2
MaxPolls == 3
MaxIdLen == 3
MaxPartLen == 2

-----------------------------------------------------------------------------
(* Strings, identifiers *)

EmptyStr == <<>>

RECURSIVE SplitFrom(_, _, _)
\* strings.Split(s, sep) for a one-character sep: cur is the part being read
SplitFrom(s, sep, cur) ==
    IF s = <<>> THEN <<cur>>
    ELSE IF Head(s) = sep THEN <<cur>> \o SplitFrom(Tail(s), sep, <<>>)
    ELSE SplitFrom(Tail(s), sep, Append(cur, Head(s)))

Split(s, sep) == SplitFrom(s, sep, <<>>)

NoErr == [code |-> "", msg |-> {}]

Err(code, phrases) == [code |-> code, msg |-> phrases]

\* tfawserr.ErrMessageContains: the code is equal and the message contains the text
ErrMessageContains(err, code, text) == err.code = code /\ text \in err.msg

\* tfawserr.ErrCodeEquals
ErrCodeEquals(err, code) == err.code = code

BadIdForm == "GuardDuty ThreatIntelSet ID must be of the form <Detector ID>:<ThreatIntelSet ID>, was provided"

DecodeAcceptsAtLeastTwo(i) ==
    LET parts == Split(i, ":") IN
    IF Len(parts) < 2
    THEN [threatIntelSetID |-> EmptyStr, detectorID |-> EmptyStr,
          err |-> [code |-> BadIdForm, msg |-> {i}]]
    ELSE [threatIntelSetID |-> parts[2], detectorID |-> parts[1], err |-> NoErr]

DecodeThreatIntelSetID(i) ==
    LET parts == Split(i, ":") IN
    IF Len(parts) # 2
    THEN [threatIntelSetID |-> EmptyStr, detectorID |-> EmptyStr,
          err |-> [code |-> BadIdForm, msg |-> {i}]]
    ELSE [threatIntelSetID |-> parts[2], detectorID |-> parts[1], err |-> NoErr]

\* the set id put first
EncodeSetIdFirst(detectorID, setID) == setID \o <<":">> \o detectorID

\* fmt.Sprintf("%s:%s", detectorID, threatIntelSetId)
EncodeThreatIntelSetID(detectorID, setID) == detectorID \o <<":">> \o setID

-----------------------------------------------------------------------------
(* Tags: a tag map is a function from some tag keys to values; a key is a  *)
(* sequence of its parts, a reserved key starting with the part "aws:"     *)

TagKeys == {<<"k1">>, <<"aws:", "k1">>}
TagValues == {"v1", "v2"}
TagMaps == UNION {[S -> TagValues] : S \in SUBSET TagKeys}
NoTags == <<>>

Restrict(t, S) == [k \in S |-> t[k]]

\* KeyValueTags.Merge: the argument's values win
Merge(base, over) ==
    [k \in (DOMAIN base) \cup (DOMAIN over) |->
        IF k \in DOMAIN over THEN over[k] ELSE base[k]]

\* DefaultConfig.MergeTags
MergeTags(defaults, t) == Merge(defaults, t)

\* KeyValueTags.IgnoreAWS: drops the keys with the prefix "aws:"
IgnoreAWS(t) == Restrict(t, {k \in DOMAIN t : ~(Len(k) >= 1 /\ k[1] = "aws:")})

\* KeyValueTags.IgnoreConfig: drops the provider's ignored keys
IgnoreConfig(t, ignored) == Restrict(t, (DOMAIN t) \ ignored)

\* KeyValueTags.RemoveDefaultConfig: drops the pairs equal to a default tag
RemoveDefaultConfig(t, defaults) ==
    Restrict(t, {k \in DOMAIN t : ~(k \in DOMAIN defaults /\ defaults[k] = t[k])})

\* every pair of a is a pair of b
TagsWithin(a, b) == \A k \in DOMAIN a : k \in DOMAIN b /\ b[k] = a[k]

\* verify.SetTagsDiff: the planned tags_all
PlannedTagsAll(t, defaults, ignored) == IgnoreConfig(MergeTags(defaults, t), ignored)

-----------------------------------------------------------------------------
(* Times: an RFC 3339 text is an instant and the way its zone is written   *)

NoTime == [inst |-> 0, zone |-> ""]
TimeTexts == {[inst |-> 1, zone |-> "Z"], [inst |-> 1, zone |-> "+00:00"]}

\* time.Parse(time.RFC3339, v): the instant; the zero time when v is no time
ParseRFC3339(v) == v.inst

\* t.Format(time.RFC3339) of a time the service returned (UTC)
FormatRFC3339(t) == [inst |-> t, zone |-> "Z"]

-----------------------------------------------------------------------------
(* The resource data shared by the handlers *)

Kinds == {"activation", "threatintelset", "studio"}

NoInput == [unset |-> TRUE]

\* one remote call of a handler: the operation, its request, its error, and
\* whether the remote object was absent when the call was made
Call(api, req, err, gone) == [api |-> api, req |-> req, err |-> err, gone |-> gone]

\* the place of the error in the record of a call that was not answered
\* while the handler waited for it
NoAnswer == Err("", {"no answer"})

Failed(c) == c.err # NoErr /\ c.err # NoAnswer

\* the last remote call of the running (or last) handler
LastCall == calls[Len(calls)]

NoDiag == [prefix |-> "", cause |-> NoErr]

\* the framework starts handler o at position p
Begin(o, p) ==
    /\ pc = "idle"
    /\ nops < MaxOps
    /\ nops' = nops + 1
    /\ op' = o
    /\ pc' = p
    /\ result' = "none"
    /\ diag' = NoDiag
    /\ calls' = <<>>
    /\ attempts' = 0
    /\ obs' = <<>>
    /\ pollRes' = "none"
    /\ prevDeleted' = (op = "delete" /\ result = "ok")
    /\ inflight' = FALSE
    /\ made' = 0
    /\ windowAt' = 0

\* sdkdiag.AppendErrorf(diags, prefix + ": %s", e): the handler returns the
\* error e behind a static prefix
ReturnError(prefix, e) ==
    /\ pc' = "idle"
    /\ result' = "error"
    /\ diag' = [prefix |-> prefix, cause |-> e]

\* the handler returns empty diagnostics
ReturnOk ==
    /\ pc' = "idle"
    /\ result' = "ok"
    /\ diag' = NoDiag

\* a remote call may fail for a reason of the service's own, while the
\* budget of such failures lasts
MayFail == nfault < MaxFaults

GenericFault == Err("InternalFailure", {"internal failure"})

\* the remote service with no object
NoRemote(k) ==
    [present |-> FALSE, rid |-> EmptyStr, f |-> NoInput, tags |-> NoTags,
     status |-> "", detector |-> TRUE]

\* the identifier the service gives the n-th object it makes
NewId(n) == [i \in 1..(n + 1) |-> "r"]

-----------------------------------------------------------------------------
(* SSM activation *)

ActConfigs ==
    [name : {"", "n1"}, description : {"d1"},
     expiration_date : {NoTime} \cup TimeTexts, iam_role : {"", "r1"},
     registration_limit : {0}, tags : TagMaps]

ActZeroState ==
    [name |-> "", description |-> "", expiration_date |-> NoTime,
     expired |-> FALSE, iam_role |-> "", registration_limit |-> 0,
     registration_count |-> 0, activation_code |-> "", tags |-> NoTags,
     tags_all |-> NoTags]

CreateTagsDefaultsWin(c, defaults) == MergeTags(c.tags, defaults)

\* the merged tags of a create handler
CreateTags(c, defaults) == MergeTags(defaults, c.tags)

\* Tags(tags.IgnoreAWS()) when len(tags) > 0, and no tags otherwise
CreateInputTags(tags) == IF DOMAIN tags # {} THEN IgnoreAWS(tags) ELSE NoTags

\* the CreateActivationInput; an unset field holds its zero value
ActCreateInput(c, defaults) ==
    [IamRole |-> IF c.iam_role # "" THEN c.iam_role ELSE c.name,
     DefaultInstanceName |-> IF c.name # "" THEN c.name ELSE "",
     Description |-> IF c.description # "" THEN c.description ELSE "",
     ExpirationDate |-> IF c.expiration_date # NoTime
                        THEN ParseRFC3339(c.expiration_date) ELSE 0,
     RegistrationLimit |-> IF c.registration_limit # 0
                           THEN c.registration_limit ELSE 0,
     Tags |-> CreateInputTags(CreateTags(c, defaults))]

\* the service stores the activation it is sent, with its own defaults for
\* the expiration and the registration limit
ActRemoteCreate(inp, n) ==
    [present |-> TRUE, rid |-> NewId(n),
     f |-> [IamRole |-> inp.IamRole,
            DefaultInstanceName |-> inp.DefaultInstanceName,
            Description |-> inp.Description,
            ExpirationDate |-> IF inp.ExpirationDate # 0
                               THEN inp.ExpirationDate ELSE 1 + 1,
            Expired |-> FALSE,
            RegistrationLimit |-> IF inp.RegistrationLimit # 0
                                  THEN inp.RegistrationLimit ELSE 1,
            RegistrationsCount |-> 0],
     tags |-> inp.Tags, status |-> "", detector |-> TRUE]

ActTransient(e) == ErrMessageContains(e, "ValidationException", "Not existing role")

\* the errors CreateActivation answers with
ActCreateErrors ==
    {Err("ValidationException", {"Not existing role"}),
     Err("ValidationException", {"other"}),
     Err("InternalServerError", {"Not existing role"})}

ActCreateBegin ==
    /\ kind = "activation"
    /\ id = EmptyStr
    /\ Begin("create", "act_create")
    /\ isNew' = TRUE
    /\ input' = ActCreateInput(cfg, dtc)
    /\ resp' = EmptyStr
    /\ UNCHANGED <<kind, cfg, dtc, itc, id, st, remote, ncreated, nfault, nedits>>

\* the objects whose identifier the handler can find in resp after a create
\* call that made object n: after the window the call the handler stopped
\* waiting for writes resp as well, unsynchronised, once it is answered
SeenAfterCreate(final, n) ==
    {n} \cup (IF final /\ made > 0 THEN {n - 1} ELSE {})

\* CreateActivation succeeds, inside the retry window or after it
ActCreateCallOk ==
    /\ pc \in {"act_create", "act_create_final"}
    /\ ncreated' = ncreated + 1
    /\ made' = made + 1
    /\ calls' = Append(calls, Call("CreateActivation", input, NoErr, FALSE))
    /\ \E n \in SeenAfterCreate(pc = "act_create_final", ncreated) :
          /\ remote' = ActRemoteCreate(input, n)
          /\ id' = NewId(n)
    /\ st' = [st EXCEPT !.activation_code = "code"]
    /\ pc' = "act_read"
    /\ UNCHANGED <<kind, cfg, dtc, itc, isNew, op, result, diag, input, resp,
                   attempts, obs, pollRes, nops, nedits, nfault, prevDeleted, inflight, windowAt>>

\* CreateActivation answers without an activation id
ActCreateCallNilId ==
    /\ pc \in {"act_create", "act_create_final"}
    /\ MayFail
    /\ nfault' = nfault + 1
    /\ remote' = ActRemoteCreate(input, ncreated)
    /\ ncreated' = ncreated + 1
    /\ made' = made + 1
    /\ calls' = Append(calls, Call("CreateActivation", input, NoErr, FALSE))
    /\ ReturnError("ActivationId was nil", NoErr)
    /\ UNCHANGED <<kind, cfg, dtc, itc, id, st, isNew, op, input, resp, attempts,
                   obs, pollRes, nops, nedits, prevDeleted, inflight, windowAt>>

\* the call after the window succeeds while the call the handler stopped
\* waiting for is answered with an error: that answer's empty output is
\* what the handler can find in resp
ActCreateCallRaced ==
    /\ pc = "act_create_final"
    /\ inflight
    /\ inflight' = FALSE
    /\ MayFail
    /\ nfault' = nfault + 1
    /\ remote' = ActRemoteCreate(input, ncreated)
    /\ ncreated' = ncreated + 1
    /\ made' = made + 1
    /\ calls' = Append(calls, Call("CreateActivation", input, NoErr, FALSE))
    /\ ReturnError("ActivationId was nil", NoErr)
    /\ UNCHANGED <<kind, cfg, dtc, itc, id, st, isNew, op, input, resp, attempts,
                   obs, pollRes, nops, nedits, prevDeleted, windowAt>>

\* a transient error inside the retry window: the call is made again
ActCreateCallRetry ==
    /\ pc = "act_create"
    /\ attempts + 1 < MaxAttempts
    /\ \E e \in ActCreateErrors :
          /\ ActTransient(e)
          /\ calls' = Append(calls, Call("CreateActivation", input, e, FALSE))
    /\ attempts' = attempts + 1
    /\ UNCHANGED <<kind, cfg, dtc, itc, id, st, isNew, pc, op, result, diag,
                   input, resp, remote, ncreated, obs, pollRes, nops, nedits, nfault, prevDeleted, inflight, made, windowAt>>

\* a transient error when the retry window has elapsed: RetryContext returns
\* the error of the call, which is no TimeoutError, so tfresource.TimedOut
\* does not hold and the handler returns the error
ActCreateCallWindow ==
    /\ pc = "act_create"
    /\ \E e \in ActCreateErrors :
          /\ ActTransient(e)
          /\ calls' = Append(calls, Call("CreateActivation", input, e, FALSE))
          /\ ReturnError("creating SSM activation", e)
    /\ attempts' = attempts + 1
    /\ windowAt' = Len(calls) + 1
    /\ UNCHANGED <<kind, cfg, dtc, itc, id, st, isNew, op, input, resp, remote,
                   ncreated, obs, pollRes, nops, nedits, nfault, prevDeleted, inflight, made>>

\* a call is not answered before the retry window and the grace period of
\* the wait have elapsed, and the handler stops waiting for it. With no call
\* answered before, RetryContext returns a TimeoutError with no last error:
\* tfresource.TimedOut holds and the handler calls once more. Otherwise
\* RetryContext returns the transient error of the last answered call
ActCreateCallHang ==
    /\ pc = "act_create"
    /\ calls' = Append(calls, Call("CreateActivation", input, NoAnswer, FALSE))
    /\ inflight' = TRUE
    /\ IF attempts = 0
       THEN pc' = "act_create_final" /\ UNCHANGED <<result, diag>>
       ELSE ReturnError("creating SSM activation", LastCall.err)
    /\ windowAt' = Len(calls) + 1
    /\ UNCHANGED <<kind, cfg, dtc, itc, id, st, isNew, op, input, resp, remote,
                   ncreated, attempts, obs, pollRes, nops, nedits, nfault,
                   prevDeleted, made>>

\* an error that is not transient, or any error of the call after the window
ActCreateCallFail ==
    /\ pc \in {"act_create", "act_create_final"}
    /\ \E e \in ActCreateErrors :
          /\ pc = "act_create" => ~ActTransient(e)
          /\ ~ActTransient(e) => MayFail
          /\ nfault' = IF ActTransient(e) THEN nfault ELSE nfault + 1
          /\ calls' = Append(calls, Call("CreateActivation", input, e, FALSE))
          /\ ReturnError("creating SSM activation", e)
    /\ UNCHANGED <<kind, cfg, dtc, itc, id, st, isNew, op, input, resp, remote,
                   ncreated, attempts, obs, pollRes, nops, nedits, prevDeleted, inflight, made, windowAt>>

\* the fields resourceActivationRead writes from the activation it found
ActFlatten(s, r, defaults, ignored) ==
    LET tags == IgnoreConfig(IgnoreAWS(r.tags), ignored) IN
    [s EXCEPT !.name = r.f.DefaultInstanceName,
              !.description = r.f.Description,
              !.expiration_date = FormatRFC3339(r.f.ExpirationDate),
              !.expired = r.f.Expired,
              !.iam_role = r.f.IamRole,
              !.registration_limit = r.f.RegistrationLimit,
              !.registration_count = r.f.RegistrationsCount,
              !.tags = RemoveDefaultConfig(tags, defaults),
              !.tags_all = tags]

\* the activations DescribeActivations lists for the filter ActivationIds = i
ActivationList(r, i) == IF r.present /\ r.rid = i THEN <<r>> ELSE <<>>

ActReadBegin ==
    /\ kind = "activation"
    /\ id # EmptyStr
    /\ Begin("read", "act_read")
    /\ isNew' = FALSE
    /\ UNCHANGED <<kind, cfg, dtc, itc, id, st, input, resp, remote, ncreated,
                   nfault, nedits>>

ActRead ==
    /\ pc = "act_read"
    /\ LET list == ActivationList(remote, id) IN
       /\ calls' = Append(calls, Call("DescribeActivations", id, NoErr, list = <<>>))
       /\ IF ~isNew /\ list = <<>>
          THEN /\ id' = EmptyStr
               /\ ReturnOk
               /\ UNCHANGED st
          ELSE IF list = <<>>
          THEN \* resp.ActivationList[0] of an empty list
               /\ pc' = "idle"
               /\ result' = "panic"
               /\ diag' = [prefix |-> "panic", cause |-> Err("index out of range", {})]
               /\ UNCHANGED <<id, st>>
          ELSE /\ st' = ActFlatten(st, list[1], dtc, itc)
               /\ ReturnOk
               /\ UNCHANGED id
    /\ UNCHANGED <<kind, cfg, dtc, itc, isNew, op, input, resp, remote, ncreated,
                   attempts, obs, pollRes, nops, nedits, nfault, prevDeleted, inflight, made, windowAt>>

ActReadFail ==
    /\ pc = "act_read"
    /\ MayFail
    /\ nfault' = nfault + 1
    /\ calls' = Append(calls, Call("DescribeActivations", id, GenericFault,
                                   ActivationList(remote, id) = <<>>))
    /\ ReturnError("reading SSM activation", GenericFault)
    /\ UNCHANGED <<kind, cfg, dtc, itc, id, st, isNew, op, input, resp, remote,
                   ncreated, attempts, obs, pollRes, nops, nedits, prevDeleted, inflight, made, windowAt>>

ActDeleteBegin ==
    /\ kind = "activation"
    /\ id # EmptyStr
    /\ Begin("delete", "act_delete")
    /\ isNew' = FALSE
    /\ UNCHANGED <<kind, cfg, dtc, itc, id, st, input, resp, remote, ncreated,
                   nfault, nedits>>

ActDelete ==
    /\ pc = "act_delete"
    /\ LET gone == ActivationList(remote, id) = <<>> IN
       \/ /\ ~gone
          /\ remote' = NoRemote(kind)
          /\ calls' = Append(calls, Call("DeleteActivation", id, NoErr, gone))
          /\ ReturnOk
          /\ UNCHANGED nfault
       \/ /\ gone
          /\ calls' = Append(calls, Call("DeleteActivation", id,
                                         Err("InvalidActivationId", {}), gone))
          /\ ReturnError("deleting SSM activation", Err("InvalidActivationId", {}))
          /\ UNCHANGED <<remote, nfault>>
       \/ /\ MayFail
          /\ nfault' = nfault + 1
          /\ calls' = Append(calls, Call("DeleteActivation", id, GenericFault, gone))
          /\ ReturnError("deleting SSM activation", GenericFault)
          /\ UNCHANGED remote
    /\ UNCHANGED <<kind, cfg, dtc, itc, id, st, isNew, op, input, resp, ncreated,
                   attempts, obs, pollRes, nops, nedits, prevDeleted, inflight, made, windowAt>>

-----------------------------------------------------------------------------
(* GuardDuty threat intel set *)

DetectorIds == {<<"d">>, <<"d", ":", "e">>}
Names == {"n1", "n2"}
Locations == {"l1", "l2"}

TisConfigs ==
    [detector_id : DetectorIds, name : Names, format : {"TXT"},
     location : Locations, activate : BOOLEAN, tags : TagMaps]

NoArn == [resource |-> <<>>]

TisZeroState ==
    [arn |-> NoArn, detector_id |-> EmptyStr, name |-> "", format |-> "",
     location |-> "", activate |-> FALSE, tags |-> NoTags, tags_all |-> NoTags]

\* arn.ARN{..., Resource: "detector/<detectorId>/threatintelset/<id>"}
TisArn(detectorId, setId) ==
    [resource |-> <<"detector", detectorId, "threatintelset", setId>>]

NotOwnedMsg == "The request is rejected because the input detectorId is not owned by the current account."

NotOwned == Err("BadRequestException", {NotOwnedMsg})

NoSuchSet == Err("BadRequestException", {"The request is rejected because the input threatIntelSetId is not owned by the current account."})

\* the account owns the detector
DetectorOwned(r, det) == r.detector /\ det \in DetectorIds

\* the service holds the set under the detector
TisHolds(r, det, set) ==
    DetectorOwned(r, det) /\ r.present /\ r.rid = set /\ r.f.DetectorId = det

\* the error of a call that names a detector and a set, NoErr when both exist
TisLookupErr(r, det, set) ==
    IF ~DetectorOwned(r, det) THEN NotOwned
    ELSE IF ~TisHolds(r, det, set) THEN NoSuchSet
    ELSE NoErr

\* the CreateThreatIntelSetInput
TisCreateInput(c, defaults) ==
    [DetectorId |-> c.detector_id, Name |-> c.name, Format |-> c.format,
     Location |-> c.location, Activate |-> c.activate,
     Tags |-> CreateInputTags(CreateTags(c, defaults))]

\* the service stores the set it is sent and starts to activate it when asked
TisRemoteCreate(r, inp, n) ==
    [present |-> TRUE, rid |-> NewId(n),
     f |-> [DetectorId |-> inp.DetectorId, Name |-> inp.Name,
            Format |-> inp.Format, Location |-> inp.Location],
     tags |-> inp.Tags,
     status |-> IF inp.Activate THEN "ACTIVATING" ELSE "INACTIVE",
     detector |-> r.detector]

TisCreatePending == {"ACTIVATING", "DEACTIVATING"}

TisCreateTargetActiveOnly == {"ACTIVE"}

TisCreateTarget == {"ACTIVE", "INACTIVE"}

TisDeletePending ==
    {"ACTIVE", "ACTIVATING", "INACTIVE", "DEACTIVATING", "DELETE_PENDING"}

TisDeleteTarget == {"DELETED"}

\* StateChangeConf.WaitForStateContext on one observed status
WaitStep(pending, target, status) ==
    IF status \in target THEN "success"
    ELSE IF status \in pending THEN "pending"
    ELSE "unexpected"

TisCreateBegin ==
    /\ kind = "threatintelset"
    /\ id = EmptyStr
    /\ Begin("create", "tis_create")
    /\ isNew' = TRUE
    /\ input' = TisCreateInput(cfg, dtc)
    /\ resp' = EmptyStr
    /\ UNCHANGED <<kind, cfg, dtc, itc, id, st, remote, ncreated, nfault, nedits>>

TisCreateCall ==
    /\ pc = "tis_create"
    /\ \/ /\ DetectorOwned(remote, input.DetectorId)
          /\ remote' = TisRemoteCreate(remote, input, ncreated)
          /\ ncreated' = ncreated + 1
          /\ resp' = NewId(ncreated)
          /\ calls' = Append(calls, Call("CreateThreatIntelSet", input, NoErr, FALSE))
          /\ pc' = "tis_create_poll"
          /\ UNCHANGED <<result, diag, nfault>>
       \/ /\ ~DetectorOwned(remote, input.DetectorId)
          /\ calls' = Append(calls, Call("CreateThreatIntelSet", input, NotOwned, FALSE))
          /\ ReturnError("creating GuardDuty Threat Intel Set", NotOwned)
          /\ UNCHANGED <<remote, ncreated, resp, nfault>>
       \/ /\ MayFail
          /\ nfault' = nfault + 1
          /\ calls' = Append(calls, Call("CreateThreatIntelSet", input, GenericFault, FALSE))
          /\ ReturnError("creating GuardDuty Threat Intel Set", GenericFault)
          /\ UNCHANGED <<remote, ncreated, resp>>
    /\ UNCHANGED <<kind, cfg, dtc, itc, id, st, isNew, op, input, attempts,
                   obs, pollRes, nops, nedits, prevDeleted, inflight, made, windowAt>>

\* one refresh of the wait that follows the create call
TisCreatePoll ==
    /\ pc = "tis_create_poll"
    /\ Len(obs) < MaxPolls
    /\ LET det == input.DetectorId
           e == TisLookupErr(remote, det, resp)
           req == <<det, resp>>
           prefix == "creating GuardDuty Threat Intel Set: waiting for completion"
       IN
       IF e # NoErr
       THEN /\ calls' = Append(calls, Call("GetThreatIntelSet", req, e, TRUE))
            /\ pollRes' = "error"
            /\ ReturnError(prefix, e)
            /\ UNCHANGED <<obs, id>>
       ELSE /\ calls' = Append(calls, Call("GetThreatIntelSet", req, NoErr, FALSE))
            /\ obs' = Append(obs, remote.status)
            /\ LET w == WaitStep(TisCreatePending, TisCreateTarget, remote.status) IN
               IF w = "success"
               THEN /\ pollRes' = "success"
                    /\ id' = EncodeThreatIntelSetID(det, resp)
                    /\ pc' = "tis_read"
                    /\ UNCHANGED <<result, diag>>
               ELSE IF w = "pending"
               THEN UNCHANGED <<pollRes, id, pc, result, diag>>
               ELSE /\ pollRes' = "unexpected"
                    /\ ReturnError(prefix, Err("UnexpectedStateError", {remote.status}))
                    /\ UNCHANGED id
    /\ UNCHANGED <<kind, cfg, dtc, itc, st, isNew, op, input, resp, remote,
                   ncreated, attempts, nops, nedits, nfault, prevDeleted, inflight, made, windowAt>>

\* the five minutes of the wait elapse before a target status is observed
TisCreatePollTimeout ==
    /\ pc = "tis_create_poll"
    /\ pollRes' = "timeout"
    /\ ReturnError("creating GuardDuty Threat Intel Set: waiting for completion",
                   Err("TimeoutError", {}))
    /\ UNCHANGED <<kind, cfg, dtc, itc, id, st, isNew, op, input, resp, remote,
                   ncreated, attempts, obs, calls, nops, nedits, nfault, prevDeleted, inflight, made, windowAt>>

\* the refresh's GetThreatIntelSet fails for a reason of the service's own
TisPollFail ==
    /\ pc \in {"tis_create_poll", "tis_delete_poll"}
    /\ Len(obs) < MaxPolls
    /\ MayFail
    /\ nfault' = nfault + 1
    /\ calls' = Append(calls, Call("GetThreatIntelSet", id, GenericFault, FALSE))
    /\ pollRes' = "error"
    /\ ReturnError(IF pc = "tis_create_poll"
                   THEN "creating GuardDuty Threat Intel Set: waiting for completion"
                   ELSE "waiting for GuardDuty ThreatIntelSet status to be DELETED",
                   GenericFault)
    /\ UNCHANGED <<kind, cfg, dtc, itc, id, st, isNew, op, input, resp, remote,
                   ncreated, attempts, obs, nops, nedits, prevDeleted, inflight, made, windowAt>>

\* the fields resourceThreatIntelSetRead writes from the set it got
TisFlatten(s, r, detectorId, setId, defaults, ignored) ==
    LET tags == IgnoreConfig(IgnoreAWS(r.tags), ignored) IN
    [s EXCEPT !.arn = TisArn(detectorId, setId),
              !.detector_id = detectorId,
              !.format = r.f.Format,
              !.location = r.f.Location,
              !.name = r.f.Name,
              !.activate = (r.status = "ACTIVE"),
              !.tags = RemoveDefaultConfig(tags, defaults),
              !.tags_all = tags]

TisReadBegin ==
    /\ kind = "threatintelset"
    /\ id # EmptyStr
    /\ Begin("read", "tis_read")
    /\ isNew' = FALSE
    /\ UNCHANGED <<kind, cfg, dtc, itc, id, st, input, resp, remote, ncreated,
                   nfault, nedits>>

\* whether resourceThreatIntelSetRead takes the error of GetThreatIntelSet
\* for the set being gone
TisReadNotFound(e) == ErrMessageContains(e, "BadRequestException", NotOwnedMsg)

TisRead ==
    /\ pc = "tis_read"
    /\ LET dec == DecodeThreatIntelSetID(id)
           det == dec.detectorID
           set == dec.threatIntelSetID
           e == TisLookupErr(remote, det, set)
       IN
       IF dec.err # NoErr
       THEN /\ ReturnError("reading GuardDuty Threat Intel Set", dec.err)
            /\ UNCHANGED <<id, st, calls>>
       ELSE /\ calls' = Append(calls, Call("GetThreatIntelSet", <<det, set>>, e, e # NoErr))
            /\ IF e # NoErr
               THEN IF TisReadNotFound(e)
                    THEN /\ id' = EmptyStr
                         /\ ReturnOk
                         /\ UNCHANGED st
                    ELSE /\ ReturnError("reading GuardDuty Threat Intel Set", e)
                         /\ UNCHANGED <<id, st>>
               ELSE /\ st' = TisFlatten(st, remote, det, set, dtc, itc)
                    /\ ReturnOk
                    /\ UNCHANGED id
    /\ UNCHANGED <<kind, cfg, dtc, itc, isNew, op, input, resp, remote,
                   ncreated, attempts, obs, pollRes, nops, nedits, nfault, prevDeleted, inflight, made, windowAt>>

TisReadFail ==
    /\ pc = "tis_read"
    /\ DecodeThreatIntelSetID(id).err = NoErr
    /\ MayFail
    /\ nfault' = nfault + 1
    /\ calls' = Append(calls, Call("GetThreatIntelSet", id, GenericFault, FALSE))
    /\ ReturnError("reading GuardDuty Threat Intel Set", GenericFault)
    /\ UNCHANGED <<kind, cfg, dtc, itc, id, st, isNew, op, input, resp, remote,
                   ncreated, attempts, obs, pollRes, nops, nedits, prevDeleted, inflight, made, windowAt>>

\* the configurations an edit of the configuration can lead to: the fields
\* that force a new resource keep their values
TagEdits(t) ==
    LET k == <<"k1">> IN
    {t} \cup (IF k \in DOMAIN t
              THEN {Restrict(t, (DOMAIN t) \ {k}),
                    [t EXCEPT ![k] = IF @ = "v1" THEN "v2" ELSE "v1"]}
              ELSE {Merge(t, [x \in {k} |-> "v1"])})

TisEdits(c) ==
    {[c EXCEPT !.name = n, !.location = l, !.activate = a, !.tags = t] :
        n \in Names, l \in Locations, a \in BOOLEAN, t \in TagEdits(c.tags)}

\* d.HasChange(key): the stored value differs from the planned one
TisHasChange(s, c, key) ==
    CASE key = "name" -> s.name # c.name
      [] key = "location" -> s.location # c.location
      [] key = "activate" -> s.activate # c.activate
      [] key = "tags_all" -> s.tags_all # PlannedTagsAll(c.tags, dtc, itc)
      [] key = "tags" -> s.tags # c.tags

\* a request that carries all three fields as soon as one of them has changed
TisUpdateInputAllFields(s, c, det, set) ==
    [DetectorId |-> det, ThreatIntelSetId |-> set,
     sets |-> IF \E k \in {"name", "location", "activate"} : TisHasChange(s, c, k)
              THEN {"name", "location", "activate"}
              ELSE {},
     Name |-> c.name,
     Location |-> c.location,
     Activate |-> c.activate]

\* the UpdateThreatIntelSetInput: sets names the fields that are set
TisUpdateInput(s, c, det, set) ==
    [DetectorId |-> det, ThreatIntelSetId |-> set,
     sets |-> {k \in {"name", "location", "activate"} : TisHasChange(s, c, k)},
     Name |-> IF TisHasChange(s, c, "name") THEN c.name ELSE "",
     Location |-> IF TisHasChange(s, c, "location") THEN c.location ELSE "",
     Activate |-> IF TisHasChange(s, c, "activate") THEN c.activate ELSE FALSE]

\* the service applies the fields that are set
TisRemoteUpdate(r, req) ==
    [r EXCEPT !.f = [@ EXCEPT
                        !.Name = IF "name" \in req.sets THEN req.Name ELSE @,
                        !.Location = IF "location" \in req.sets THEN req.Location ELSE @],
              !.status = IF "activate" \in req.sets
                         THEN (IF req.Activate THEN "ACTIVATING" ELSE "DEACTIVATING")
                         ELSE @]

\* UpdateTags(ctx, conn, identifier, old, new): untags the keys that are gone
\* and tags the pairs that are new or changed
UpdateTagsApply(rtags, old, new) ==
    LET removed == DOMAIN IgnoreAWS(Restrict(old, (DOMAIN old) \ (DOMAIN new)))
        updated == IgnoreAWS(Restrict(new, {k \in DOMAIN new :
                                 ~(k \in DOMAIN old /\ old[k] = new[k])}))
    IN Merge(Restrict(rtags, (DOMAIN rtags) \ removed), updated)

TisUpdateBegin ==
    /\ kind = "threatintelset"
    /\ id # EmptyStr
    /\ \E c \in TisEdits(cfg) :
          /\ \E k \in {"name", "location", "activate", "tags_all", "tags"} :
                TisHasChange(st, c, k)
          /\ cfg' = c
    /\ Begin("update", "tis_update")
    /\ nedits < MaxEdits
    /\ nedits' = nedits + 1
    /\ isNew' = FALSE
    /\ UNCHANGED <<kind, dtc, itc, id, st, input, resp, remote, ncreated,
                   nfault>>

\* the update handler up to and with its UpdateThreatIntelSet call
TisUpdate ==
    /\ pc = "tis_update"
    /\ LET dec == DecodeThreatIntelSetID(id)
           det == dec.detectorID
           set == dec.threatIntelSetID
           req == TisUpdateInput(st, cfg, det, set)
           e == TisLookupErr(remote, det, set)
       IN
       IF dec.err # NoErr
       THEN /\ ReturnError("updating GuardDuty Threat Intel Set", dec.err)
            /\ UNCHANGED <<calls, remote>>
       ELSE IF req.sets # {}
       THEN /\ calls' = Append(calls, Call("UpdateThreatIntelSet", req, e, e # NoErr))
            /\ IF e # NoErr
               THEN /\ ReturnError("updating GuardDuty Threat Intel Set", e)
                    /\ UNCHANGED remote
               ELSE /\ remote' = TisRemoteUpdate(remote, req)
                    /\ pc' = "tis_update_tags"
                    /\ UNCHANGED <<result, diag>>
       ELSE /\ pc' = "tis_update_tags"
            /\ UNCHANGED <<calls, remote, result, diag>>
    /\ UNCHANGED <<kind, cfg, dtc, itc, id, st, isNew, op, input, resp,
                   ncreated, attempts, obs, pollRes, nops, nedits, nfault, prevDeleted, inflight, made, windowAt>>

TisUpdateFail ==
    /\ pc = "tis_update"
    /\ LET dec == DecodeThreatIntelSetID(id)
           req == TisUpdateInput(st, cfg, dec.detectorID, dec.threatIntelSetID)
       IN
       /\ dec.err = NoErr
       /\ req.sets # {}
       /\ calls' = Append(calls, Call("UpdateThreatIntelSet", req, GenericFault, FALSE))
    /\ MayFail
    /\ nfault' = nfault + 1
    /\ ReturnError("updating GuardDuty Threat Intel Set", GenericFault)
    /\ UNCHANGED <<kind, cfg, dtc, itc, id, st, isNew, op, input, resp, remote,
                   ncreated, attempts, obs, pollRes, nops, nedits, prevDeleted, inflight, made, windowAt>>

\* the update handler's UpdateTags, when tags_all has changed
TisUpdateTags ==
    /\ pc = "tis_update_tags"
    /\ LET o == st.tags_all
           n == PlannedTagsAll(cfg.tags, dtc, itc)
           found == /\ remote.present
                    /\ remote.detector
                    /\ st.arn = TisArn(remote.f.DetectorId, remote.rid)
           e == IF found THEN NoErr ELSE Err("BadRequestException", {"no such resource"})
       IN
       IF TisHasChange(st, cfg, "tags_all")
       THEN /\ calls' = Append(calls, Call("UpdateTags", <<st.arn, o, n>>, e, ~found))
            /\ IF found
               THEN /\ remote' = [remote EXCEPT !.tags = UpdateTagsApply(@, o, n)]
                    /\ pc' = "tis_read"
                    /\ UNCHANGED <<result, diag>>
               ELSE /\ ReturnError("updating GuardDuty Threat Intel Set: setting tags", e)
                    /\ UNCHANGED remote
       ELSE /\ pc' = "tis_read"
            /\ UNCHANGED <<calls, remote, result, diag>>
    /\ UNCHANGED <<kind, cfg, dtc, itc, id, st, isNew, op, input, resp,
                   ncreated, attempts, obs, pollRes, nops, nedits, nfault, prevDeleted, inflight, made, windowAt>>

TisUpdateTagsFail ==
    /\ pc = "tis_update_tags"
    /\ TisHasChange(st, cfg, "tags_all")
    /\ MayFail
    /\ nfault' = nfault + 1
    /\ calls' = Append(calls, Call("UpdateTags", <<st.arn, st.tags_all,
                   PlannedTagsAll(cfg.tags, dtc, itc)>>, GenericFault, FALSE))
    /\ ReturnError("updating GuardDuty Threat Intel Set: setting tags", GenericFault)
    /\ UNCHANGED <<kind, cfg, dtc, itc, id, st, isNew, op, input, resp, remote,
                   ncreated, attempts, obs, pollRes, nops, nedits, prevDeleted, inflight, made, windowAt>>

TisDeleteBegin ==
    /\ kind = "threatintelset"
    /\ id # EmptyStr
    /\ Begin("delete", "tis_delete")
    /\ isNew' = FALSE
    /\ UNCHANGED <<kind, cfg, dtc, itc, id, st, input, resp, remote, ncreated,
                   nfault, nedits>>

\* the delete handler up to and with its DeleteThreatIntelSet call
TisDeleteCall ==
    /\ pc = "tis_delete"
    /\ LET dec == DecodeThreatIntelSetID(id)
           det == dec.detectorID
           set == dec.threatIntelSetID
           e == IF TisLookupErr(remote, det, set) # NoErr
                THEN TisLookupErr(remote, det, set)
                ELSE IF remote.status \in {"DELETE_PENDING", "DELETED"}
                THEN NoSuchSet
                ELSE NoErr
       IN
       IF dec.err # NoErr
       THEN /\ ReturnError("deleting GuardDuty Threat Intel Set", dec.err)
            /\ UNCHANGED <<calls, remote>>
       ELSE /\ calls' = Append(calls, Call("DeleteThreatIntelSet", <<det, set>>, e, e # NoErr))
            /\ IF e # NoErr
               THEN /\ ReturnError("deleting GuardDuty Threat Intel Set", e)
                    /\ UNCHANGED remote
               ELSE /\ remote' = [remote EXCEPT !.status = "DELETE_PENDING"]
                    /\ pc' = "tis_delete_poll"
                    /\ UNCHANGED <<result, diag>>
    /\ UNCHANGED <<kind, cfg, dtc, itc, id, st, isNew, op, input, resp,
                   ncreated, attempts, obs, pollRes, nops, nedits, nfault, prevDeleted, inflight, made, windowAt>>

TisDeleteFail ==
    /\ pc = "tis_delete"
    /\ DecodeThreatIntelSetID(id).err = NoErr
    /\ MayFail
    /\ nfault' = nfault + 1
    /\ calls' = Append(calls, Call("DeleteThreatIntelSet", id, GenericFault, FALSE))
    /\ ReturnError("deleting GuardDuty Threat Intel Set", GenericFault)
    /\ UNCHANGED <<kind, cfg, dtc, itc, id, st, isNew, op, input, resp, remote,
                   ncreated, attempts, obs, pollRes, nops, nedits, prevDeleted, inflight, made, windowAt>>

\* one refresh of the wait that follows the delete call
TisDeletePoll ==
    /\ pc = "tis_delete_poll"
    /\ Len(obs) < MaxPolls
    /\ LET dec == DecodeThreatIntelSetID(id)
           det == dec.detectorID
           set == dec.threatIntelSetID
           e == TisLookupErr(remote, det, set)
           prefix == "waiting for GuardDuty ThreatIntelSet status to be DELETED"
       IN
       IF e # NoErr
       THEN /\ calls' = Append(calls, Call("GetThreatIntelSet", <<det, set>>, e, TRUE))
            /\ pollRes' = "error"
            /\ ReturnError(prefix, e)
            /\ UNCHANGED obs
       ELSE /\ calls' = Append(calls, Call("GetThreatIntelSet", <<det, set>>, NoErr, FALSE))
            /\ obs' = Append(obs, remote.status)
            /\ LET w == WaitStep(TisDeletePending, TisDeleteTarget, remote.status) IN
               IF w = "success"
               THEN /\ pollRes' = "success"
                    /\ ReturnOk
               ELSE IF w = "pending"
               THEN UNCHANGED <<pollRes, pc, result, diag>>
               ELSE /\ pollRes' = "unexpected"
                    /\ ReturnError(prefix, Err("UnexpectedStateError", {remote.status}))
    /\ UNCHANGED <<kind, cfg, dtc, itc, id, st, isNew, op, input, resp, remote,
                   ncreated, attempts, nops, nedits, nfault, prevDeleted, inflight, made, windowAt>>

TisDeletePollTimeout ==
    /\ pc = "tis_delete_poll"
    /\ pollRes' = "timeout"
    /\ ReturnError("waiting for GuardDuty ThreatIntelSet status to be DELETED",
                   Err("TimeoutError", {}))
    /\ UNCHANGED <<kind, cfg, dtc, itc, id, st, isNew, op, input, resp, remote,
                   ncreated, attempts, obs, calls, nops, nedits, nfault, prevDeleted, inflight, made, windowAt>>

\* a handler runs: what the service does between two handlers is what it
\* does at the start of the second
Running == pc # "idle"

\* the service finishes what it has started on the set
EnvStatus ==
    /\ kind = "threatintelset"
    /\ Running
    /\ remote.present
    /\ remote.status \in {"ACTIVATING", "DEACTIVATING", "DELETE_PENDING"}
    /\ remote' = [remote EXCEPT !.status =
                     CASE @ = "ACTIVATING" -> "ACTIVE"
                       [] @ = "DEACTIVATING" -> "INACTIVE"
                       [] @ = "DELETE_PENDING" -> "DELETED"]
    /\ UNCHANGED <<kind, cfg, dtc, itc, id, st, isNew, pc, op, result, diag,
                   input, resp, ncreated, attempts, obs, pollRes, calls, nops, nedits,
                   nfault, prevDeleted, inflight, made, windowAt>>

\* the service forgets a set it has deleted
EnvPurge ==
    /\ kind = "threatintelset"
    /\ Running
    /\ remote.present
    /\ remote.status = "DELETED"
    /\ remote' = [NoRemote(kind) EXCEPT !.detector = remote.detector]
    /\ UNCHANGED <<kind, cfg, dtc, itc, id, st, isNew, pc, op, result, diag,
                   input, resp, ncreated, attempts, obs, pollRes, calls, nops, nedits,
                   nfault, prevDeleted, inflight, made, windowAt>>

\* the service fails to activate the set
EnvStatusError ==
    /\ kind = "threatintelset"
    /\ Running
    /\ remote.present
    /\ remote.status = "ACTIVATING"
    /\ MayFail
    /\ nfault' = nfault + 1
    /\ remote' = [remote EXCEPT !.status = "ERROR"]
    /\ UNCHANGED <<kind, cfg, dtc, itc, id, st, isNew, pc, op, result, diag,
                   input, resp, ncreated, attempts, obs, pollRes, calls, nops, nedits,
                   prevDeleted, inflight, made, windowAt>>

-----------------------------------------------------------------------------
(* EMR studio *)

S3Locations == {"s1", "s2"}
Descriptions == {"", "d1"}
SubnetSets == {{"sn1"}, {"sn1", "sn2"}}

StudioConfigs ==
    [auth_mode : {"SSO"}, default_s3_location : S3Locations,
     description : Descriptions, engine_security_group_id : {"sg1"},
     idp_auth_url : {""}, idp_relay_state_parameter_name : {""},
     name : Names, service_role : {"role"}, subnet_ids : SubnetSets,
     tags : TagMaps, user_role : {""}, vpc_id : {"vpc"},
     workspace_security_group_id : {"sg2"}]

StudioZeroState ==
    [arn |-> EmptyStr, auth_mode |-> "", default_s3_location |-> "",
     description |-> "", engine_security_group_id |-> "", idp_auth_url |-> "",
     idp_relay_state_parameter_name |-> "", name |-> "", service_role |-> "",
     url |-> EmptyStr, user_role |-> "", vpc_id |-> "",
     workspace_security_group_id |-> "", subnet_ids |-> {}, tags |-> NoTags,
     tags_all |-> NoTags]

\* the CreateStudioInput; an unset field holds its zero value
StudioCreateInput(c, defaults) ==
    [AuthMode |-> c.auth_mode,
     DefaultS3Location |-> c.default_s3_location,
     EngineSecurityGroupId |-> c.engine_security_group_id,
     Name |-> c.name,
     ServiceRole |-> c.service_role,
     SubnetIds |-> c.subnet_ids,
     VpcId |-> c.vpc_id,
     WorkspaceSecurityGroupId |-> c.workspace_security_group_id,
     Description |-> IF c.description # "" THEN c.description ELSE "",
     IdpAuthUrl |-> IF c.idp_auth_url # "" THEN c.idp_auth_url ELSE "",
     IdpRelayStateParameterName |->
         IF c.idp_relay_state_parameter_name # ""
         THEN c.idp_relay_state_parameter_name ELSE "",
     UserRole |-> IF c.user_role # "" THEN c.user_role ELSE "",
     Tags |-> CreateInputTags(CreateTags(c, defaults))]

\* the service stores the studio it is sent and gives it an arn and a url
StudioRemoteCreate(inp, n) ==
    [present |-> TRUE, rid |-> NewId(n),
     f |-> [AuthMode |-> inp.AuthMode,
            DefaultS3Location |-> inp.DefaultS3Location,
            EngineSecurityGroupId |-> inp.EngineSecurityGroupId,
            Name |-> inp.Name,
            ServiceRole |-> inp.ServiceRole,
            SubnetIds |-> inp.SubnetIds,
            VpcId |-> inp.VpcId,
            WorkspaceSecurityGroupId |-> inp.WorkspaceSecurityGroupId,
            Description |-> inp.Description,
            IdpAuthUrl |-> inp.IdpAuthUrl,
            IdpRelayStateParameterName |-> inp.IdpRelayStateParameterName,
            UserRole |-> inp.UserRole,
            StudioArn |-> <<"studio">> \o NewId(n),
            Url |-> <<"url">> \o NewId(n)],
     tags |-> inp.Tags, status |-> "", detector |-> TRUE]

StudioTransient(e) ==
    \/ ErrMessageContains(e, "InvalidRequestException",
                          "entity does not have permissions to assume role")
    \/ ErrMessageContains(e, "InvalidRequestException",
                          "Service role does not have permission to access")

\* the errors CreateStudio answers with
StudioCreateErrors ==
    {Err("InvalidRequestException", {"entity does not have permissions to assume role"}),
     Err("InvalidRequestException", {"Service role does not have permission to access"}),
     Err("InvalidRequestException", {"other"}),
     Err("InternalServerException", {"entity does not have permissions to assume role"})}

StudioCreateBegin ==
    /\ kind = "studio"
    /\ id = EmptyStr
    /\ Begin("create", "studio_create")
    /\ isNew' = TRUE
    /\ input' = StudioCreateInput(cfg, dtc)
    /\ resp' = EmptyStr
    /\ UNCHANGED <<kind, cfg, dtc, itc, id, st, remote, ncreated, nfault, nedits>>

\* CreateStudio succeeds, inside the retry window or after it
StudioCreateCallOk ==
    /\ pc \in {"studio_create", "studio_create_final"}
    /\ ncreated' = ncreated + 1
    /\ made' = made + 1
    /\ calls' = Append(calls, Call("CreateStudio", input, NoErr, FALSE))
    /\ \E n \in SeenAfterCreate(pc = "studio_create_final", ncreated) :
          /\ remote' = StudioRemoteCreate(input, n)
          /\ id' = NewId(n)
    /\ pc' = "studio_read"
    /\ UNCHANGED <<kind, cfg, dtc, itc, st, isNew, op, result, diag, input, resp,
                   attempts, obs, pollRes, nops, nedits, nfault, prevDeleted, inflight, windowAt>>

\* the call after the window succeeds while the call the handler stopped
\* waiting for is answered with an error: that answer's empty output is
\* what the handler can find in result, and the id it sets is empty
StudioCreateCallRaced ==
    /\ pc = "studio_create_final"
    /\ inflight
    /\ inflight' = FALSE
    /\ MayFail
    /\ nfault' = nfault + 1
    /\ remote' = StudioRemoteCreate(input, ncreated)
    /\ ncreated' = ncreated + 1
    /\ made' = made + 1
    /\ calls' = Append(calls, Call("CreateStudio", input, NoErr, FALSE))
    /\ id' = EmptyStr
    /\ pc' = "studio_read"
    /\ UNCHANGED <<kind, cfg, dtc, itc, st, isNew, op, result, diag, input, resp,
                   attempts, obs, pollRes, nops, nedits, prevDeleted, windowAt>>

\* a transient error inside the retry window: the call is made again
StudioCreateCallRetry ==
    /\ pc = "studio_create"
    /\ attempts + 1 < MaxAttempts
    /\ \E e \in StudioCreateErrors :
          /\ StudioTransient(e)
          /\ calls' = Append(calls, Call("CreateStudio", input, e, FALSE))
    /\ attempts' = attempts + 1
    /\ UNCHANGED <<kind, cfg, dtc, itc, id, st, isNew, pc, op, result, diag,
                   input, resp, remote, ncreated, obs, pollRes, nops, nedits,
                   nfault, prevDeleted, inflight, made, windowAt>>

\* a transient error when the retry window has elapsed: RetryContext returns
\* the error of the call, which is no TimeoutError, so tfresource.TimedOut
\* does not hold and the handler returns the error
StudioCreateCallWindow ==
    /\ pc = "studio_create"
    /\ \E e \in StudioCreateErrors :
          /\ StudioTransient(e)
          /\ calls' = Append(calls, Call("CreateStudio", input, e, FALSE))
          /\ ReturnError("creating EMR Studio", e)
    /\ attempts' = attempts + 1
    /\ windowAt' = Len(calls) + 1
    /\ UNCHANGED <<kind, cfg, dtc, itc, id, st, isNew, op, input, resp, remote,
                   ncreated, obs, pollRes, nops, nedits, nfault, prevDeleted, inflight, made>>

\* a call is not answered before the retry window and the grace period of
\* the wait have elapsed, and the handler stops waiting for it: one more
\* call when no call was answered before, the transient error of the last
\* answered call otherwise
StudioCreateCallHang ==
    /\ pc = "studio_create"
    /\ calls' = Append(calls, Call("CreateStudio", input, NoAnswer, FALSE))
    /\ inflight' = TRUE
    /\ IF attempts = 0
       THEN pc' = "studio_create_final" /\ UNCHANGED <<result, diag>>
       ELSE ReturnError("creating EMR Studio", LastCall.err)
    /\ windowAt' = Len(calls) + 1
    /\ UNCHANGED <<kind, cfg, dtc, itc, id, st, isNew, op, input, resp, remote,
                   ncreated, attempts, obs, pollRes, nops, nedits, nfault,
                   prevDeleted, made>>

\* an error that is not transient, or any error of the call after the window
StudioCreateCallFail ==
    /\ pc \in {"studio_create", "studio_create_final"}
    /\ \E e \in StudioCreateErrors :
          /\ pc = "studio_create" => ~StudioTransient(e)
          /\ ~StudioTransient(e) => MayFail
          /\ nfault' = IF StudioTransient(e) THEN nfault ELSE nfault + 1
          /\ calls' = Append(calls, Call("CreateStudio", input, e, FALSE))
          /\ ReturnError("creating EMR Studio", e)
    /\ UNCHANGED <<kind, cfg, dtc, itc, id, st, isNew, op, input, resp, remote,
                   ncreated, attempts, obs, pollRes, nops, nedits, prevDeleted, inflight, made, windowAt>>

\* the error the service answers with for a studio that does not exist
StudioGone == Err("InvalidRequestException", {"Studio does not exist"})

\* the error DescribeStudio answers with
DescribeStudioErr(r, i) == IF r.present /\ r.rid = i THEN NoErr ELSE StudioGone

\* FindStudioByID: a not-found error in place of the service's "Studio does
\* not exist", any other error as it is
FindStudioByIDErr(e) ==
    IF ErrMessageContains(e, "InvalidRequestException", "Studio does not exist")
    THEN Err("NotFoundError", e.msg)
    ELSE e

\* tfresource.NotFound
NotFound(e) == e.code = "NotFoundError"

\* the fields resourceStudioRead writes from the studio it found
StudioFlatten(s, r, defaults, ignored) ==
    LET tags == IgnoreConfig(IgnoreAWS(r.tags), ignored) IN
    [s EXCEPT !.arn = r.f.StudioArn,
              !.auth_mode = r.f.AuthMode,
              !.default_s3_location = r.f.DefaultS3Location,
              !.description = r.f.Description,
              !.engine_security_group_id = r.f.EngineSecurityGroupId,
              !.idp_auth_url = r.f.IdpAuthUrl,
              !.idp_relay_state_parameter_name = r.f.IdpRelayStateParameterName,
              !.name = r.f.Name,
              !.service_role = r.f.ServiceRole,
              !.url = r.f.Url,
              !.user_role = r.f.UserRole,
              !.vpc_id = r.f.VpcId,
              !.workspace_security_group_id = r.f.WorkspaceSecurityGroupId,
              !.subnet_ids = r.f.SubnetIds,
              !.tags = RemoveDefaultConfig(tags, defaults),
              !.tags_all = tags]

StudioReadBegin ==
    /\ kind = "studio"
    /\ id # EmptyStr
    /\ Begin("read", "studio_read")
    /\ isNew' = FALSE
    /\ UNCHANGED <<kind, cfg, dtc, itc, id, st, input, resp, remote, ncreated,
                   nfault, nedits>>

\* resourceStudioRead with the error e of FindStudioByID
StudioReadWith(e) ==
    IF ~isNew /\ NotFound(e)
    THEN /\ id' = EmptyStr
         /\ ReturnOk
         /\ UNCHANGED st
    ELSE IF e # NoErr
    THEN /\ ReturnError("reading EMR Studio", e)
         /\ UNCHANGED <<id, st>>
    ELSE /\ st' = StudioFlatten(st, remote, dtc, itc)
         /\ ReturnOk
         /\ UNCHANGED id

StudioRead ==
    /\ pc = "studio_read"
    /\ LET e == DescribeStudioErr(remote, id) IN
       /\ calls' = Append(calls, Call("DescribeStudio", id, e, e # NoErr))
       /\ StudioReadWith(FindStudioByIDErr(e))
    /\ UNCHANGED <<kind, cfg, dtc, itc, isNew, op, input, resp, remote,
                   ncreated, attempts, obs, pollRes, nops, nedits, nfault, prevDeleted, inflight, made, windowAt>>

StudioReadFail ==
    /\ pc = "studio_read"
    /\ MayFail
    /\ nfault' = nfault + 1
    /\ calls' = Append(calls, Call("DescribeStudio", id, GenericFault,
                                   DescribeStudioErr(remote, id) # NoErr))
    /\ StudioReadWith(FindStudioByIDErr(GenericFault))
    /\ UNCHANGED <<kind, cfg, dtc, itc, isNew, op, input, resp, remote,
                   ncreated, attempts, obs, pollRes, nops, nedits, prevDeleted, inflight, made, windowAt>>

StudioEdits(c) ==
    {[c EXCEPT !.name = n, !.description = d, !.default_s3_location = l,
               !.subnet_ids = s, !.tags = t] :
        n \in Names, d \in Descriptions, l \in S3Locations, s \in SubnetSets,
        t \in TagEdits(c.tags)}

\* d.HasChange(key): the stored value differs from the planned one
StudioHasChange(s, c, key) ==
    CASE key = "name" -> s.name # c.name
      [] key = "description" -> s.description # c.description
      [] key = "default_s3_location" -> s.default_s3_location # c.default_s3_location
      [] key = "subnet_ids" -> s.subnet_ids # c.subnet_ids
      [] key = "tags_all" -> s.tags_all # PlannedTagsAll(c.tags, dtc, itc)
      [] key = "tags" -> s.tags # c.tags

StudioUpdatable == {"name", "description", "default_s3_location", "subnet_ids"}

\* the UpdateStudioInput the update handler builds: sets names the fields
\* that are set
StudioUpdateInput(s, c, i) ==
    [StudioId |-> i,
     sets |-> {k \in StudioUpdatable : StudioHasChange(s, c, k)},
     Description |-> IF StudioHasChange(s, c, "description") THEN c.description ELSE "",
     Name |-> IF StudioHasChange(s, c, "name") THEN c.name ELSE "",
     DefaultS3Location |-> IF StudioHasChange(s, c, "default_s3_location")
                           THEN c.default_s3_location ELSE "",
     SubnetIds |-> IF StudioHasChange(s, c, "subnet_ids") THEN c.subnet_ids ELSE {}]

StudioUpdateBegin ==
    /\ kind = "studio"
    /\ id # EmptyStr
    /\ \E c \in StudioEdits(cfg) :
          /\ \E k \in StudioUpdatable \cup {"tags_all", "tags"} :
                StudioHasChange(st, c, k)
          /\ cfg' = c
    /\ Begin("update", "studio_update")
    /\ nedits < MaxEdits
    /\ nedits' = nedits + 1
    /\ isNew' = FALSE
    /\ UNCHANGED <<kind, dtc, itc, id, st, input, resp, remote, ncreated,
                   nfault>>

\* resourceStudioUpdate: the request it builds is given to no remote call;
\* its UpdateTags follows when tags_all has changed, and then its read
StudioUpdate ==
    /\ pc = "studio_update"
    /\ input' = StudioUpdateInput(st, cfg, id)
    /\ LET o == st.tags_all
           n == PlannedTagsAll(cfg.tags, dtc, itc)
           found == remote.present /\ remote.rid = id
           e == IF found THEN NoErr ELSE Err("InvalidRequestException", {"no such resource"})
       IN
       IF StudioHasChange(st, cfg, "tags_all")
       THEN /\ calls' = Append(calls, Call("UpdateTags", <<id, o, n>>, e, ~found))
            /\ IF found
               THEN /\ remote' = [remote EXCEPT !.tags = UpdateTagsApply(@, o, n)]
                    /\ pc' = "studio_read"
                    /\ UNCHANGED <<result, diag>>
               ELSE /\ ReturnError("updating EMR Studio tags", e)
                    /\ UNCHANGED remote
       ELSE /\ pc' = "studio_read"
            /\ UNCHANGED <<calls, remote, result, diag>>
    /\ UNCHANGED <<kind, cfg, dtc, itc, id, st, isNew, op, resp,
                   ncreated, attempts, obs, pollRes, nops, nedits, nfault, prevDeleted, inflight, made, windowAt>>

StudioUpdateTagsFail ==
    /\ pc = "studio_update"
    /\ StudioHasChange(st, cfg, "tags_all")
    /\ MayFail
    /\ nfault' = nfault + 1
    /\ input' = StudioUpdateInput(st, cfg, id)
    /\ calls' = Append(calls, Call("UpdateTags", <<id, st.tags_all,
                   PlannedTagsAll(cfg.tags, dtc, itc)>>, GenericFault, FALSE))
    /\ ReturnError("updating EMR Studio tags", GenericFault)
    /\ UNCHANGED <<kind, cfg, dtc, itc, id, st, isNew, op, resp, remote,
                   ncreated, attempts, obs, pollRes, nops, nedits, prevDeleted, inflight, made, windowAt>>

StudioDeleteBegin ==
    /\ kind = "studio"
    /\ id # EmptyStr
    /\ Begin("delete", "studio_delete")
    /\ isNew' = FALSE
    /\ UNCHANGED <<kind, cfg, dtc, itc, id, st, input, resp, remote, ncreated,
                   nfault, nedits>>

\* the errors DeleteStudio answers with for reasons of the service's own
StudioDeleteFaults ==
    {Err("InternalServerException", {"internal failure"}),
     Err("InvalidRequestException", {"other"})}

\* resourceStudioDelete with the error e of DeleteStudio
StudioDeleteWith(e) ==
    IF e # NoErr
    THEN IF ErrCodeEquals(e, "InternalServerException")
         THEN ReturnOk
         ELSE ReturnError("deleting EMR Studio", e)
    ELSE ReturnOk

StudioDelete ==
    /\ pc = "studio_delete"
    /\ LET gone == ~(remote.present /\ remote.rid = id)
           e == IF gone THEN StudioGone ELSE NoErr
       IN
       /\ calls' = Append(calls, Call("DeleteStudio", id, e, gone))
       /\ remote' = IF gone THEN remote ELSE NoRemote(kind)
       /\ StudioDeleteWith(e)
    /\ UNCHANGED <<kind, cfg, dtc, itc, id, st, isNew, op, input, resp,
                   ncreated, attempts, obs, pollRes, nops, nedits, nfault, prevDeleted, inflight, made, windowAt>>

StudioDeleteFail ==
    /\ pc = "studio_delete"
    /\ MayFail
    /\ nfault' = nfault + 1
    /\ \E e \in StudioDeleteFaults :
          /\ calls' = Append(calls, Call("DeleteStudio", id, e,
                                         ~(remote.present /\ remote.rid = id)))
          /\ StudioDeleteWith(e)
    /\ UNCHANGED <<kind, cfg, dtc, itc, id, st, isNew, op, input, resp, remote,
                   ncreated, attempts, obs, pollRes, nops, nedits, prevDeleted, inflight, made, windowAt>>

-----------------------------------------------------------------------------
(* The framework and the world around the handlers *)

ZeroState(k) ==
    CASE k = "activation" -> ActZeroState
      [] k = "threatintelset" -> TisZeroState
      [] k = "studio" -> StudioZeroState

\* the texts over the characters d and : of at most MaxIdLen characters
IdTexts == UNION {[1..n -> {"d", ":"}] : n \in 1..MaxIdLen}

\* the identifiers an import may put into the local state
ImportIds(k) == IF k = "threatintelset" THEN IdTexts ELSE {<<"r">>}

\* the configured fields a run starts from, for every kind of resource; an
\* edit of the configuration reaches the other values of the fields that
\* can change in place
BaseConfigs(k) ==
    CASE k = "activation" -> ActConfigs
      [] k = "threatintelset" ->
            {c \in TisConfigs : c.name = "n1" /\ c.location = "l1"}
      [] k = "studio" ->
            {c \in StudioConfigs : c.name = "n1" /\ c.default_s3_location = "s1"
                                    /\ c.subnet_ids = {"sn1"}}

\* one configuration of the fields for every kind of resource
OneConfig(k) ==
    CASE k = "activation" ->
            {c \in ActConfigs : c.name = "n1" /\ c.iam_role = "r1"
                                 /\ c.expiration_date = NoTime}
      [] k = "threatintelset" ->
            {c \in BaseConfigs(k) : c.activate /\ c.detector_id = <<"d">>}
      [] k = "studio" -> {c \in BaseConfigs(k) : c.description = "d1"}

FewTags == {NoTags, [k \in {<<"k1">>} |-> "v1"]}

\* a new resource: every configuration of the fields, with few tags
ScalarInit ==
    /\ cfg \in {c \in BaseConfigs(kind) : c.tags \in FewTags}
    /\ dtc = NoTags
    /\ itc = {}
    /\ id = EmptyStr
    /\ st = ZeroState(kind)
    /\ remote = NoRemote(kind)
    /\ ncreated = 0

\* a new resource: every combination of tags, with one configuration
TagInit ==
    /\ cfg \in OneConfig(kind)
    /\ dtc \in TagMaps
    /\ itc \in SUBSET TagKeys
    /\ id = EmptyStr
    /\ st = ZeroState(kind)
    /\ remote = NoRemote(kind)
    /\ ncreated = 0

\* the remote object of configuration c that was made before the run, and
\* has settled
Existing(k, c) ==
    CASE k = "activation" -> ActRemoteCreate(ActCreateInput(c, NoTags), 0)
      [] k = "threatintelset" ->
            [TisRemoteCreate(NoRemote(k), TisCreateInput(c, NoTags), 0)
                EXCEPT !.status = IF c.activate THEN "ACTIVE" ELSE "INACTIVE"]
      [] k = "studio" -> StudioRemoteCreate(StudioCreateInput(c, NoTags), 0)

\* the identifier of that object
ExistingId(k, c) ==
    IF k = "threatintelset"
    THEN EncodeThreatIntelSetID(c.detector_id, NewId(0))
    ELSE NewId(0)

\* the local state an earlier create and read have left for that object
ExistingState(k, c) ==
    CASE k = "activation" ->
            ActFlatten([ActZeroState EXCEPT !.activation_code = "code"],
                       Existing(k, c), NoTags, {})
      [] k = "threatintelset" ->
            TisFlatten(TisZeroState, Existing(k, c), c.detector_id, NewId(0),
                       NoTags, {})
      [] k = "studio" -> StudioFlatten(StudioZeroState, Existing(k, c), NoTags, {})

\* schema.ImportStatePassthroughContext has put a given text into the id
ImportInit ==
    /\ cfg \in {c \in OneConfig(kind) : c.tags = NoTags}
    /\ dtc = NoTags
    /\ itc = {}
    /\ id \in ImportIds(kind)
    /\ st = ZeroState(kind)
    /\ remote = NoRemote(kind)
    /\ ncreated = 0

\* a resource that an earlier run has created and read
ManagedInit ==
    /\ cfg \in {c \in OneConfig(kind) : c.tags = NoTags}
    /\ dtc = NoTags
    /\ itc = {}
    /\ id = ExistingId(kind, cfg)
    /\ st = ExistingState(kind, cfg)
    /\ remote = Existing(kind, cfg)
    /\ ncreated = 1

\* the remote object disappears without the provider: a threat intel set
\* with its detector, an activation or a studio by itself
EnvLose ==
    /\ Running
    /\ MayFail
    /\ nfault' = nfault + 1
    /\ remote.present
    /\ remote' = IF kind = "threatintelset"
                 THEN [remote EXCEPT !.detector = FALSE]
                 ELSE NoRemote(kind)
    /\ UNCHANGED <<kind, cfg, dtc, itc, id, st, isNew, pc, op, result, diag,
                   input, resp, ncreated, attempts, obs, pollRes, calls, nops,
                   nedits, prevDeleted, inflight, made, windowAt>>

\* everything but the configuration, the provider's tags, the id, the
\* local state and the remote service
\* the service carries out a create request the handler has stopped waiting
\* for: one more remote object
EnvCreateLate ==
    /\ inflight
    /\ inflight' = FALSE
    /\ ncreated' = ncreated + 1
    /\ made' = made + 1
    /\ remote' = IF remote.present
                 THEN remote
                 ELSE IF kind = "activation"
                      THEN ActRemoteCreate(input, ncreated)
                      ELSE StudioRemoteCreate(input, ncreated)
    /\ UNCHANGED <<kind, cfg, dtc, itc, id, st, isNew, pc, op, result, diag,
                   input, resp, attempts, obs, pollRes, calls, nops, nedits,
                   nfault, prevDeleted, windowAt>>

InitRest ==
    /\ kind \in Kinds
    /\ isNew = FALSE
    /\ pc = "idle"
    /\ op = "none"
    /\ result = "none"
    /\ diag = NoDiag
    /\ input = NoInput
    /\ resp = EmptyStr
    /\ attempts = 0
    /\ obs = <<>>
    /\ pollRes = "none"
    /\ calls = <<>>
    /\ nops = 0
    /\ nedits = 0
    /\ nfault = 0
    /\ prevDeleted = FALSE
    /\ inflight = FALSE
    /\ made = 0
    /\ windowAt = 0

Init == InitRest /\ (ScalarInit \/ ImportInit \/ ManagedInit)

InitTags == InitRest /\ TagInit

Next ==
    \/ ActCreateBegin
    \/ ActCreateCallOk
    \/ ActCreateCallNilId
    \/ ActCreateCallRetry
    \/ ActCreateCallWindow
    \/ ActCreateCallHang
    \/ ActCreateCallRaced
    \/ ActCreateCallFail
    \/ ActReadBegin
    \/ ActRead
    \/ ActReadFail
    \/ ActDeleteBegin
    \/ ActDelete
    \/ TisCreateBegin
    \/ TisCreateCall
    \/ TisCreatePoll
    \/ TisCreatePollTimeout
    \/ TisPollFail
    \/ TisReadBegin
    \/ TisRead
    \/ TisReadFail
    \/ TisUpdateBegin
    \/ TisUpdate
    \/ TisUpdateFail
    \/ TisUpdateTags
    \/ TisUpdateTagsFail
    \/ TisDeleteBegin
    \/ TisDeleteCall
    \/ TisDeleteFail
    \/ TisDeletePoll
    \/ TisDeletePollTimeout
    \/ EnvStatus
    \/ EnvStatusError
    \/ EnvPurge
    \/ StudioCreateBegin
    \/ StudioCreateCallOk
    \/ StudioCreateCallRetry
    \/ StudioCreateCallWindow
    \/ StudioCreateCallHang
    \/ StudioCreateCallRaced
    \/ StudioCreateCallFail
    \/ StudioReadBegin
    \/ StudioRead
    \/ StudioReadFail
    \/ StudioUpdateBegin
    \/ StudioUpdate
    \/ StudioUpdateTagsFail
    \/ StudioDeleteBegin
    \/ StudioDelete
    \/ StudioDeleteFail
    \/ EnvLose
    \/ EnvCreateLate

Spec == Init /\ [][Next]_vars

\* the create and read handlers of the three resources
NextTags ==
    \/ ActCreateBegin
    \/ ActCreateCallOk
    \/ ActReadBegin
    \/ ActRead
    \/ TisCreateBegin
    \/ TisCreateCall
    \/ TisCreatePoll
    \/ TisReadBegin
    \/ TisRead
    \/ EnvStatus
    \/ StudioCreateBegin
    \/ StudioCreateCallOk
    \/ StudioReadBegin
    \/ StudioRead

SpecTags == InitTags /\ [][NextTags]_vars

\* the detector ids and set ids the composite identifier is built from
IdParts == UNION {[1..n -> {"d", ":"}] : n \in 0..MaxPartLen}

\* a threat intel set create that is past its status poll, for every detector
\* id of the configuration and every set id in the create call's response
InitId ==
    /\ kind = "threatintelset"
    /\ \E c \in OneConfig(kind) :
          cfg \in {[c EXCEPT !.detector_id = a] : a \in IdParts}
    /\ resp \in IdParts
    /\ dtc = NoTags
    /\ itc = {}
    /\ id = EmptyStr
    /\ st = ZeroState(kind)
    /\ remote = NoRemote(kind)
    /\ ncreated = 0
    /\ isNew = TRUE
    /\ pc = "tis_set_id"
    /\ op = "create"
    /\ result = "none"
    /\ diag = NoDiag
    /\ input = NoInput
    /\ attempts = 0
    /\ obs = <<>>
    /\ pollRes = "success"
    /\ calls = <<>>
    /\ nops = 1
    /\ nedits = 0
    /\ nfault = 0
    /\ prevDeleted = FALSE
    /\ inflight = FALSE
    /\ made = 0
    /\ windowAt = 0

\* d.SetId of the create handler
IdEncode ==
    /\ pc = "tis_set_id"
    /\ id' = EncodeThreatIntelSetID(cfg.detector_id, resp)
    /\ pc' = "tis_decode"
    /\ UNCHANGED <<kind, cfg, dtc, itc, st, isNew, op, result, diag, input, resp,
                   remote, ncreated, attempts, obs, pollRes, calls, nops, nedits,
                   nfault, prevDeleted, inflight, made, windowAt>>

\* the read of the create handler up to the GetThreatIntelSetInput it builds
\* from the decoded id
IdDecode ==
    /\ pc = "tis_decode"
    /\ LET dec == DecodeThreatIntelSetID(id) IN
       IF dec.err # NoErr
       THEN /\ ReturnError("reading GuardDuty Threat Intel Set", dec.err)
            /\ UNCHANGED input
       ELSE /\ input' = [DetectorId |-> dec.detectorID,
                         ThreatIntelSetId |-> dec.threatIntelSetID]
            /\ ReturnOk
    /\ UNCHANGED <<kind, cfg, dtc, itc, id, st, isNew, op, resp, remote, ncreated,
                   attempts, obs, pollRes, calls, nops, nedits, nfault,
                   prevDeleted, inflight, made, windowAt>>

NextId ==
    \/ IdEncode
    \/ IdDecode

SpecId == InitId /\ [][NextId]_vars

-----------------------------------------------------------------------------
(* Properties of the handlers *)

\* the running handler has returned
Ended == pc = "idle" /\ result # "none"

\* the last remote call of the handler is the call of its read
HasReadCall ==
    /\ calls # <<>>
    /\ CASE kind = "activation" -> LastCall.api = "DescribeActivations"
         [] kind = "studio" -> LastCall.api = "DescribeStudio"
         [] kind = "threatintelset" ->
               /\ LastCall.api = "GetThreatIntelSet"
               /\ \/ op \in {"read", "update"}
                  \/ op = "create" /\ pollRes = "success" /\ Len(calls) = Len(obs) + 2

\* the read's call found that the remote object does not exist: an empty
\* list of activations, a detector the account does not own, no such studio
ReadFoundNothing ==
    /\ HasReadCall
    /\ CASE kind = "activation" -> LastCall.err = NoErr /\ LastCall.gone
         [] kind = "studio" ->
               LastCall.err = [code |-> "InvalidRequestException",
                               msg |-> {"Studio does not exist"}]
         [] kind = "threatintelset" ->
               LastCall.err = [code |-> "BadRequestException", msg |-> {NotOwnedMsg}]

\* the user-submitted fields held in local state are the configured ones
\* (the expiration date as the instant it denotes)
UserFieldsKept ==
    CASE kind = "activation" ->
            /\ st.name = cfg.name
            /\ st.description = cfg.description
            /\ st.iam_role = cfg.iam_role
            /\ cfg.expiration_date # NoTime
                  => st.expiration_date.inst = cfg.expiration_date.inst
            /\ cfg.registration_limit # 0 => st.registration_limit = cfg.registration_limit
            /\ st.tags = cfg.tags
      [] kind = "threatintelset" ->
            /\ st.detector_id = cfg.detector_id
            /\ st.name = cfg.name
            /\ st.format = cfg.format
            /\ st.location = cfg.location
            /\ st.activate = cfg.activate
            /\ st.tags = cfg.tags
      [] kind = "studio" ->
            /\ st.auth_mode = cfg.auth_mode
            /\ st.default_s3_location = cfg.default_s3_location
            /\ st.description = cfg.description
            /\ st.engine_security_group_id = cfg.engine_security_group_id
            /\ st.idp_auth_url = cfg.idp_auth_url
            /\ st.idp_relay_state_parameter_name = cfg.idp_relay_state_parameter_name
            /\ st.name = cfg.name
            /\ st.service_role = cfg.service_role
            /\ st.subnet_ids = cfg.subnet_ids
            /\ st.user_role = cfg.user_role
            /\ st.vpc_id = cfg.vpc_id
            /\ st.workspace_security_group_id = cfg.workspace_security_group_id
            /\ st.tags = cfg.tags

\* C1: whenever a create handler has returned without error against a remote
\* service that stores what it is sent and returns what it stores (no
\* failure and no loss was injected), every user-submitted field in local
\* state equals the configured value.
C1_CreateReadRoundTrip ==
    (op = "create" /\ Ended /\ result = "ok" /\ nfault = 0) => UserFieldsKept

\* C2: a read that follows a delete handler that returned without error,
\* with no remote failure and no loss injected, clears the local identifier
\* and returns no error.
C2_DeleteThenReadAbsent ==
    (op = "read" /\ Ended /\ prevDeleted /\ nfault = 0)
        => (result = "ok" /\ id = EmptyStr)

C3_Pending ==
    IF op = "create" THEN {"ACTIVATING", "DEACTIVATING"}
    ELSE {"ACTIVE", "ACTIVATING", "INACTIVE", "DEACTIVATING", "DELETE_PENDING"}

C3_Target == IF op = "create" THEN {"ACTIVE", "INACTIVE"} ELSE {"DELETED"}

\* C3: in the status poll of the threat intel set's create and delete, every
\* status observed before the last one is pending, the poll has returned
\* success exactly when the last observed status is a target status, and a
\* poll that timed out saw pending statuses only and makes the handler
\* return a timeout error.
C3_PollSuccessAtFirstTarget ==
    (kind = "threatintelset" /\ op \in {"create", "delete"}) =>
        /\ \A i \in 1..(Len(obs) - 1) : obs[i] \in C3_Pending \ C3_Target
        /\ pollRes = "success" <=> (obs # <<>> /\ obs[Len(obs)] \in C3_Target)
        /\ pollRes = "timeout" =>
              /\ \A i \in 1..Len(obs) : obs[i] \in C3_Pending \ C3_Target
              /\ Ended
              /\ result = "error"
              /\ diag.cause.code = "TimeoutError"
        /\ (op = "delete" /\ Ended /\ result = "ok") => pollRes = "success"

\* two pending statuses and then a target status: the poll returns success
C3_Witness ==
    /\ kind = "threatintelset"
    /\ op = "create"
    /\ pollRes = "success"
    /\ obs = <<"ACTIVATING", "ACTIVATING", "ACTIVE">>

\* every pair of the tags a read wrote to tags is a pair of its tags_all
C4_ReadTagsWithinTagsAll == TagsWithin(st.tags, st.tags_all)

\* C4 as stated: the tag set sent on create contains every pair of the
\* configured tags, and tags_all written by a read contains every pair of
\* the tags written by the same read.
C4_SentTagsHoldUserTags ==
    /\ op = "create" => TagsWithin(cfg.tags, input.Tags)
    /\ C4_ReadTagsWithinTagsAll

\* C4, amended: the tag set sent on create contains every pair of the
\* configured tags whose key does not start with "aws:", and tags_all
\* written by a read contains every pair of the tags written by that read.
C4_SentTagsHoldUnreservedUserTags ==
    /\ op = "create" =>
          \A k \in DOMAIN cfg.tags :
              k[1] # "aws:" => (k \in DOMAIN input.Tags /\ input.Tags[k] = cfg.tags[k])
    /\ C4_ReadTagsWithinTagsAll

\* a create has returned with user tags, a default tag of the same key with
\* another value and a reserved key among the user tags
C4_Witness ==
    /\ op = "create"
    /\ Ended
    /\ result = "ok"
    /\ DOMAIN cfg.tags = TagKeys
    /\ <<"k1">> \in DOMAIN dtc
    /\ dtc[<<"k1">>] # cfg.tags[<<"k1">>]
    /\ <<"k1">> \in DOMAIN st.tags

\* C5: a threat intel set read, update or delete whose identifier does not
\* split on ":" into exactly two parts makes no remote call and returns an
\* error that names the expected form and the identifier.
C5_MalformedIdRejected ==
    (/\ kind = "threatintelset"
     /\ op \in {"read", "update", "delete"}
     /\ id # EmptyStr
     /\ Len(Split(id, ":")) # 2) =>
        /\ calls = <<>>
        /\ Ended =>
              /\ result = "error"
              /\ diag.cause.code = BadIdForm
              /\ diag.cause.msg = {id}

\* an update with an identifier of three parts has returned
C5_Witness ==
    /\ kind = "threatintelset"
    /\ op = "update"
    /\ Ended
    /\ Len(Split(id, ":")) = 3

\* C6: a read that finds the remote object gone clears the identifier and
\* returns no error when the resource was not created in the same operation,
\* and keeps the identifier and returns an error when it was.
C6_NotFoundOnRead ==
    (Ended /\ ReadFoundNothing) =>
        IF op = "create"
        THEN result = "error" /\ id # EmptyStr
        ELSE result = "ok" /\ id = EmptyStr

C8_Transient(e) ==
    \/ /\ kind = "activation"
       /\ e.code = "ValidationException"
       /\ "Not existing role" \in e.msg
    \/ /\ kind = "studio"
       /\ e.code = "InvalidRequestException"
       /\ \/ "entity does not have permissions to assume role" \in e.msg
          \/ "Service role does not have permission to access" \in e.msg

C8_IsCreate(c) == c.api \in {"CreateActivation", "CreateStudio"}

\* the error of call i leaves the handler free to return without error: a
\* retried transient error, a not-found on read, or the error of a delete
\* call against a remote object that is gone
C7_Exempt(i) ==
    \/ C8_IsCreate(calls[i]) /\ i < Len(calls) /\ C8_Transient(calls[i].err)
    \/ i = Len(calls) /\ ReadFoundNothing
    \/ /\ calls[i].api \in {"DeleteActivation", "DeleteThreatIntelSet", "DeleteStudio"}
       /\ calls[i].gone

\* C7: a handler that has returned without an error has met no remote error
\* but a retried transient one, a not-found on read, or the error of a
\* delete call against a remote object that is already gone.
C7_NoErrorSwallowed ==
    (Ended /\ result # "error") =>
        \A i \in 1..Len(calls) : Failed(calls[i]) => C7_Exempt(i)

\* C8: in the activation and studio create handlers a create call is
\* followed by another create call only if it failed with a transient
\* error, the create calls inside the retry window are bounded, and a create
\* call that fails with another error is the last call: the handler returns
\* that error at once.
C8_RetryOnlyOnTransient ==
    /\ attempts <= MaxAttempts
    /\ \A i \in 1..Len(calls) :
          C8_IsCreate(calls[i]) =>
             /\ (i < Len(calls) /\ C8_IsCreate(calls[i + 1]))
                    => C8_Transient(calls[i].err)
             /\ (Failed(calls[i]) /\ ~C8_Transient(calls[i].err)) =>
                    /\ i = Len(calls)
                    /\ Ended
                    /\ result = "error"
                    /\ diag.cause = calls[i].err

\* C9: whenever a create handler has returned without error, the local
\* identifier is not empty and is the identifier of an object the service
\* made for a create call of the handler: the service's identifier, behind
\* the detector id and ":" for the threat intel set.
C9_CreatedIdentifier ==
    (op = "create" /\ Ended /\ result = "ok") =>
        /\ id # EmptyStr
        /\ ncreated > 0
        /\ \E n \in 1..ncreated :
              /\ n > ncreated - (IF made > 1 THEN made ELSE 1)
              /\ id = IF kind = "threatintelset"
                      THEN input.DetectorId \o <<":">> \o [i \in 1..n |-> "r"]
                      ELSE [i \in 1..n |-> "r"]

\* C10: a studio update that has built a request with a changed field and
\* has returned without error for a studio that exists has sent an
\* UpdateStudio call before the call of its read, and the remote studio and
\* the local state hold the configured values.
C10_StudioUpdateSent ==
    (/\ kind = "studio"
     /\ op = "update"
     /\ Ended
     /\ input.sets # {}
     /\ result = "ok"
     /\ id # EmptyStr) =>
        /\ \E i \in 1..Len(calls) :
              /\ calls[i].api = "UpdateStudio"
              /\ \A j \in 1..Len(calls) : calls[j].api = "DescribeStudio" => i < j
        /\    /\ st.name = cfg.name
              /\ st.description = cfg.description
              /\ st.default_s3_location = cfg.default_s3_location
              /\ st.subnet_ids = cfg.subnet_ids
              /\ remote.f.Name = cfg.name
              /\ remote.f.Description = cfg.description
              /\ remote.f.DefaultS3Location = cfg.default_s3_location
              /\ remote.f.SubnetIds = cfg.subnet_ids

\* the calls of the running handler to one operation of the service
CallsTo(api) == {i \in 1..Len(calls) : calls[i].api = api}

\* the threat intel set update handler has decoded its id and has not yet
\* written the local state: st is the state the handler was started with
C11_BeforeRead ==
    /\ kind = "threatintelset"
    /\ op = "update"
    /\ DecodeThreatIntelSetID(id).err = NoErr
    /\ \/ pc \in {"tis_update_tags", "tis_read"}
       \/ Ended /\ result = "error" /\ calls # <<>> /\
             LastCall.api \in {"UpdateThreatIntelSet", "UpdateTags"}

C11_Changed == {k \in {"name", "location", "activate"} : st[k] # cfg[k]}

\* C11: a threat intel set update handler that is past its update step has
\* sent an UpdateThreatIntelSet request if and only if one of name, location
\* and activate differs between state and configuration; the request names
\* the id's two parts, sets exactly the differing fields to their configured
\* values and leaves the others unset; a handler that is past its tags step
\* has sent an UpdateTags request if and only if tags_all differs.
C11_UpdateCarriesChangedFields ==
    C11_BeforeRead =>
        /\ (CallsTo("UpdateThreatIntelSet") # {}) <=> (C11_Changed # {})
        /\ Cardinality(CallsTo("UpdateThreatIntelSet")) <= 1
        /\ \A i \in CallsTo("UpdateThreatIntelSet") :
              LET req == calls[i].req IN
              /\ req.DetectorId = DecodeThreatIntelSetID(id).detectorID
              /\ req.ThreatIntelSetId = DecodeThreatIntelSetID(id).threatIntelSetID
              /\ req.sets = C11_Changed
              /\ req.Name = (IF "name" \in C11_Changed THEN cfg.name ELSE "")
              /\ req.Location =
                    (IF "location" \in C11_Changed THEN cfg.location ELSE "")
              /\ req.Activate =
                    (IF "activate" \in C11_Changed THEN cfg.activate ELSE FALSE)
        /\ (CallsTo("UpdateTags") # {}) =>
              st.tags_all # PlannedTagsAll(cfg.tags, dtc, itc)
        /\ (pc = "tis_read" \/ (Ended /\ LastCall.api = "UpdateTags")) =>
              ((CallsTo("UpdateTags") # {}) <=>
                  (st.tags_all # PlannedTagsAll(cfg.tags, dtc, itc)))

\* an update that changed the name alone and the tags has sent both requests
C11_Witness ==
    /\ C11_BeforeRead
    /\ pc = "tis_read"
    /\ C11_Changed = {"name"}
    /\ CallsTo("UpdateThreatIntelSet") # {}
    /\ CallsTo("UpdateTags") # {}

\* the retry window of a create handler of the activation or the studio has
\* elapsed during a call that failed with a transient error, and the handler
\* has returned
C12_WindowElapsedOnTransient ==
    /\ kind \in {"activation", "studio"}
    /\ op = "create"
    /\ Ended
    /\ windowAt > 0
    /\ C8_Transient(calls[windowAt].err)

\* the create calls the handler made after the window had elapsed
C12_CallsAfterWindow ==
    {i \in 1..Len(calls) : C8_IsCreate(calls[i]) /\ i > windowAt}

\* C12: a create handler of the activation or the studio whose retry window
\* elapsed during a call that failed with a transient error has made exactly
\* one create call after it, and has returned the outcome of that call: its
\* error when it failed, the identifier of its object when it succeeded.
C12_OneCallAfterWindow ==
    C12_WindowElapsedOnTransient =>
        /\ Cardinality(C12_CallsAfterWindow) = 1
        /\ \A i \in C12_CallsAfterWindow :
              IF Failed(calls[i])
              THEN result = "error" /\ diag.cause = calls[i].err
              ELSE result = "error" \/ id # EmptyStr

\* C13: during one create handler of the activation or the studio that meets
\* no failure of the service, the service makes at most one remote object for the handler's requests, and
\* no create call follows a create call that succeeded.
C13_AtMostOneObjectPerCreate ==
    (kind \in {"activation", "studio"} /\ op = "create" /\ nfault = 0) =>
        /\ made <= 1
        /\ \A i \in 1..Len(calls) :
              (C8_IsCreate(calls[i]) /\ calls[i].err = NoErr) =>
                 \A j \in 1..Len(calls) : C8_IsCreate(calls[j]) => j <= i

HasColon(t) == \E i \in 1..Len(t) : t[i] = ":"

\* the composite identifier has been built and decoded
C14_Decoded == pc = "idle" /\ op = "create" /\ pollRes = "success" /\ calls = <<>>

\* C14: when neither the detector id nor the set id contains ":", decoding
\* the identifier built from them gives back the same detector id and the
\* same set id without error; when one of them contains ":", decoding fails
\* with the error of the identifier's form.
C14_DecodeInvertsEncode ==
    (C14_Decoded /\ kind = "threatintelset" /\ result # "none") =>
        IF ~HasColon(cfg.detector_id) /\ ~HasColon(resp)
        THEN /\ result = "ok"
             /\ input.DetectorId = cfg.detector_id
             /\ input.ThreatIntelSetId = resp
        ELSE /\ result = "error"
             /\ diag.cause.code = BadIdForm
             /\ diag.cause.msg = {id}

\* two different parts without ":" have been joined and decoded
C14_Witness ==
    /\ C14_Decoded
    /\ result = "ok"
    /\ cfg.detector_id = <<"d">>
    /\ resp = <<"d", "d">>
    /\ id = <<"d", ":", "d", "d">>

====
